---- MODULE Spec2Model ----
(***************************************************************************)
(* SimilarPictureCleaner (src/main.go): scan a directory for images, hash  *)
(* them, group images whose hashes are within a similarity threshold of a  *)
(* group's anchor, and with -d remove every member of a group but the one  *)
(* at index 0 after sorting the group by distance to group[0].             *)
(*                                                                         *)
(* Indices are 1-based here where Go's are 0-based, except inside the sort *)
(* operators, which keep Go's 0-based half-open ranges [a, b).             *)
(* A float64 is modelled as an exact fraction [num, den]: every value the  *)
(* code computes here (p/100 for the inputs drawn, 1 - d/64) compares as   *)
(* its exact fraction does, since k/64 is exact in binary and p/100 is     *)
(* rounded by less than the gap to the nearest k/64.                       *)
(***************************************************************************)
EXTENDS Integers, Sequences, FiniteSets, TLC

VARIABLES
    pc,                  \* position of the program
    deleteFlag,          \* main: *deleteFlag
    nargs,               \* main: len(flag.Args())
    pctArg,              \* main: flag.Arg(1) as Sscanf reads it
    similarityThreshold, \* main / findSimilarImages: the threshold
    nfiles,              \* number of entries filepath.Walk visits
    w,                   \* loadImages: the entry the walk is at
    images,              \* loadImages / findSimilarImages: []ImageInfo
    loadErr,             \* main: err of loadImages
    disk,                \* paths of the files that exist
    used,                \* findSimilarImages: used
    i,                   \* findSimilarImages: i (1-based)
    j,                   \* findSimilarImages: j (1-based)
    group,               \* findSimilarImages: group
    groups,              \* findSimilarImages: groups; main: groups
    errPairs,            \* pairs for which "Error calculating distance" was printed
    calls,               \* number of calls of findSimilarImages made
    firstResult,         \* what the first call returned
    g,                   \* main: the group the deletion loop is at
    entryGroup,          \* deleteSimilarImages: group as it was on entry
    k,                   \* deleteSimilarImages: i of the deletion loop (1-based)
    dTotal,              \* deleteSimilarImages: totalSaved
    saved,               \* deleteSimilarImages: returned byte count
    delErr,              \* deleteSimilarImages: returned err # nil
    totalSaved,          \* main: totalSaved
    outcomes,            \* what each call of deleteSimilarImages returned
    statLog,             \* paths given to os.Stat, in order
    removeLog            \* paths given to os.Remove, in order

vars == <<pc, deleteFlag, nargs, pctArg, similarityThreshold, nfiles, w, images,
          loadErr, disk, used, i, j, group, groups, errPairs, calls, firstResult,
          g, entryGroup, k, dTotal, saved, delErr, totalSaved, outcomes,
          statLog, removeLog>>

(***************************************************************************)
(* Bounds of the model.                                                    *)
(***************************************************************************)
MaxFiles == 5
MaxImages == 3
MaxGroup == 3

(***************************************************************************)
(* Program constants.                                                      *)
(***************************************************************************)
HashBits == 64
PctMax == 100
\* sort.Slice sorts a slice of at most this many elements by insertion sort
maxInsertion == 12

(***************************************************************************)
(* Values.                                                                 *)
(***************************************************************************)
ImageInfo(path, hash, kind) == [Path |-> path, Hash |-> hash, Kind |-> kind]

\* a hash is the set of the positions of its 1 bits, out of 0..HashBits-1
LowBits(n) == 0 .. (n - 1)
BlockHashes == {LowBits(0), LowBits(16), LowBits(32)}
Kinds == {"PHash", "AHash"}

Ratio(n, d) == [num |-> n, den |-> d]
RSub(x, y) == Ratio(x.num * y.den - y.num * x.den, x.den * y.den)
GT(x, y) == x.num * y.den > y.num * x.den
GE(x, y) == x.num * y.den >= y.num * x.den

\* info.Size() of the file at a path
SizeOf(path) == 2 ^ (path - 1)

RECURSIVE SumSizes(_)
SumSizes(s) == IF s = <<>> THEN 0 ELSE SizeOf(Head(s).Path) + SumSizes(Tail(s))

Range(s) == {s[x] : x \in DOMAIN s}
Paths(s) == {s[x].Path : x \in DOMAIN s}

(***************************************************************************)
(* ImageHash.Distance: an error when the kinds differ, else the number of  *)
(* bits in which the two hashes differ.                                    *)
(***************************************************************************)
Distance(a, b) ==
    IF a.Kind # b.Kind
    THEN [err |-> TRUE, distance |-> -1]
    ELSE [err |-> FALSE,
          distance |-> Cardinality((a.Hash \ b.Hash) \cup (b.Hash \ a.Hash))]

(***************************************************************************)
(* parsePercentage: arg is what Sscanf("%f") makes of the string.          *)
(***************************************************************************)
parsePercentage(arg) ==
    IF ~arg.ok THEN [err |-> TRUE, val |-> Ratio(0, 1)]
    ELSE IF arg.val < 0 \/ arg.val > PctMax THEN [err |-> TRUE, val |-> Ratio(0, 1)]
    ELSE [err |-> FALSE, val |-> Ratio(arg.val, PctMax)]

Number(n) == [ok |-> TRUE, val |-> n]
NotANumber == [ok |-> FALSE, val |-> 0]

(***************************************************************************)
(* findSimilarImages (main.go 123-153).                                    *)
(***************************************************************************)
\* used := make(map[int]bool): a new map on every call
StaleUsed(u) == u
FreshUsed(u) == {}

\* the image every candidate j is compared with: images[i], the anchor
LastMember(imgs, a, grp) == grp[Len(grp)]
Anchor(imgs, a, grp) == imgs[a]

\* distance, err := images[i].Hash.Distance(images[j].Hash); if err != nil
ErrIgnored(a, b) == [err |-> FALSE, distance |-> Distance(a, b).distance]
PairDistance(a, b) == Distance(a, b)

\* similarity := 1 - float64(distance)/64.0
Similarity(distance) == RSub(Ratio(1, 1), Ratio(distance, HashBits))

\* similarity >= similarityThreshold
AcceptStrict(similarity, threshold) == GT(similarity, threshold)
Accept(similarity, threshold) == GE(similarity, threshold)

\* if len(group) > 1 (147)
EmitAlways(grp) == TRUE
Emit(grp) == Len(grp) > 1

\* used[j] = true
NotMarked(u, x) == u
MarkUsed(u, x) == u \cup {x}

\* lines 124-125 and the head of the outer loop
FindEntry ==
    /\ used' = FreshUsed(used)
    /\ groups' = <<>>
    /\ group' = <<>>
    /\ i' = 1
    /\ j' = 1
    /\ calls' = calls + 1
    /\ pc' = "find_outer"

\* one pass of the outer loop's head (127-131), or the return (152)
FindOuter ==
    /\ pc = "find_outer"
    /\ IF i > Len(images)
       THEN /\ pc' = "found"
            /\ UNCHANGED <<i, j, group>>
       ELSE IF i \in used
       THEN /\ i' = i + 1
            /\ UNCHANGED <<pc, j, group>>
       ELSE /\ group' = <<images[i]>>
            /\ j' = i + 1
            /\ pc' = "find_inner"
            /\ UNCHANGED i
    /\ UNCHANGED <<deleteFlag, nargs, pctArg, similarityThreshold, nfiles, w,
                   images, loadErr, disk, used, groups, errPairs, calls,
                   firstResult, g, entryGroup, k, dTotal, saved, delErr,
                   totalSaved, outcomes, statLog, removeLog>>

\* one pass of the inner loop (132-146), or its end and lines 147-149
FindInner ==
    /\ pc = "find_inner"
    /\ IF j > Len(images)
       THEN /\ groups' = IF Emit(group) THEN Append(groups, group) ELSE groups
            /\ i' = i + 1
            /\ pc' = "find_outer"
            /\ UNCHANGED <<j, group, used, errPairs>>
       ELSE IF j \in used
       THEN /\ j' = j + 1
            /\ UNCHANGED <<pc, i, group, groups, used, errPairs>>
       ELSE LET d == PairDistance(Anchor(images, i, group), images[j]) IN
            IF d.err
            THEN /\ errPairs' = errPairs \cup {<<i, j>>}
                 /\ j' = j + 1
                 /\ UNCHANGED <<pc, i, group, groups, used>>
            ELSE IF Accept(Similarity(d.distance), similarityThreshold)
            THEN /\ group' = Append(group, images[j])
                 /\ used' = MarkUsed(used, j)
                 /\ j' = j + 1
                 /\ UNCHANGED <<pc, i, groups, errPairs>>
            ELSE /\ j' = j + 1
                 /\ UNCHANGED <<pc, i, group, groups, used, errPairs>>
    /\ UNCHANGED <<deleteFlag, nargs, pctArg, similarityThreshold, nfiles, w,
                   images, loadErr, disk, calls, firstResult, g, entryGroup, k,
                   dTotal, saved, delErr, totalSaved, outcomes, statLog,
                   removeLog>>

(***************************************************************************)
(* findSimilarImages called twice on one input.                            *)
(***************************************************************************)
MaxCalls == 2

FindCall ==
    /\ pc = "call"
    /\ FindEntry
    /\ UNCHANGED <<deleteFlag, nargs, pctArg, similarityThreshold, nfiles, w,
                   images, loadErr, disk, errPairs, firstResult, g, entryGroup,
                   k, dTotal, saved, delErr, totalSaved, outcomes, statLog,
                   removeLog>>

FindReturn ==
    /\ pc = "found"
    /\ firstResult' = IF calls = 1 THEN groups ELSE firstResult
    /\ pc' = IF calls < MaxCalls THEN "call" ELSE "returned"
    /\ UNCHANGED <<deleteFlag, nargs, pctArg, similarityThreshold, nfiles, w,
                   images, loadErr, disk, used, i, j, group, groups, errPairs,
                   calls, g, entryGroup, k, dTotal, saved, delErr, totalSaved,
                   outcomes, statLog, removeLog>>

\* the inputs drawn: up to MaxImages images over a few hashes of both kinds,
\* and every pair of images at every distance 0..HashBits
FindPcts == {0, 50, 75, 76, 100}
SmallInputs ==
    UNION {[1 .. n -> BlockHashes \X Kinds] : n \in 0 .. MaxImages}
PairInputs ==
    {[x \in 1 .. 2 |-> IF x = 1 THEN <<LowBits(0), "PHash">>
                                ELSE <<LowBits(d), "PHash">>] : d \in 0 .. HashBits}
MkImages(f) == [x \in DOMAIN f |-> ImageInfo(x, f[x][1], f[x][2])]

Idle ==
    /\ deleteFlag = FALSE
    /\ nargs = 2
    /\ nfiles = 0
    /\ w = 1
    /\ loadErr = FALSE
    /\ used = {}
    /\ i = 1
    /\ j = 1
    /\ group = <<>>
    /\ errPairs = {}
    /\ calls = 0
    /\ firstResult = <<>>
    /\ g = 1
    /\ entryGroup = <<>>
    /\ k = 2
    /\ dTotal = 0
    /\ saved = 0
    /\ delErr = FALSE
    /\ totalSaved = 0
    /\ outcomes = <<>>
    /\ statLog = <<>>
    /\ removeLog = <<>>

InitFind ==
    /\ Idle
    /\ pc = "call"
    /\ \/ /\ pctArg \in {Number(p) : p \in FindPcts}
          /\ images \in {MkImages(f) : f \in SmallInputs}
       \/ /\ pctArg \in {Number(p) : p \in 0 .. PctMax}
          /\ images \in {MkImages(f) : f \in PairInputs}
    /\ similarityThreshold = parsePercentage(pctArg).val
    /\ disk = Paths(images)
    /\ groups = <<>>

NextFind == FindCall \/ FindOuter \/ FindInner \/ FindReturn

SpecFind == InitFind /\ [][NextFind]_vars

(***************************************************************************)
(* sort.Slice(group, less) of deleteSimilarImages (main.go 156-168), as    *)
(* the Go library runs it (pdqsort_func): a slice of at most maxInsertion  *)
(* elements is sorted by insertion sort; a longer one is partitioned about *)
(* a pivot that is first swapped to index 0.  The operators below cover    *)
(* slices of up to maxInsertion + 1 elements, which is what is drawn       *)
(* here: both sides of the partition are then sorted by insertion sort.    *)
(* Positions are Go's: 0-based, ranges [a, b).                             *)
(***************************************************************************)
At(s, x) == s[x + 1]
Swap(s, x, y) == [s EXCEPT ![x + 1] = s[y + 1], ![y + 1] = s[x + 1]]

\* the less function: both distances are to group[0] as it is at the call
Less(s, x, y) ==
    LET distanceI == Distance(At(s, x), At(s, 0))
        distanceJ == Distance(At(s, y), At(s, 0))
    IN  IF distanceI.err THEN FALSE
        ELSE IF distanceJ.err THEN FALSE
        ELSE distanceI.distance < distanceJ.distance

RECURSIVE InsertDown(_, _, _)
InsertDown(s, x, a) ==
    IF x > a /\ Less(s, x, x - 1)
    THEN InsertDown(Swap(s, x, x - 1), x - 1, a)
    ELSE s

RECURSIVE InsertionSortFrom(_, _, _, _)
InsertionSortFrom(s, x, a, b) ==
    IF x < b THEN InsertionSortFrom(InsertDown(s, x, a), x + 1, a, b) ELSE s

insertionSort(s, a, b) == InsertionSortFrom(s, a + 1, a, b)

\* order2_func: <<x, y, swaps>> with data[x] <= data[y]
order2(s, x, y, swaps) ==
    IF Less(s, y, x) THEN <<y, x, swaps + 1>> ELSE <<x, y, swaps>>

\* median_func: <<the median's position, swaps>>
median(s, x, y, z, swaps) ==
    LET o1 == order2(s, x, y, swaps)
        o2 == order2(s, o1[2], z, o1[3])
        o3 == order2(s, o1[1], o2[1], o2[3])
    IN  <<o3[2], o3[3]>>

\* choosePivot_func for 8 <= b - a < 50: the median of three, and whether
\* the three were in increasing order (no swaps)
choosePivot(s, a, b) ==
    LET l == b - a
        m == median(s, a + (l \div 4) * 1, a + (l \div 4) * 2, a + (l \div 4) * 3, 0)
    IN  [pivot |-> m[1], increasing |-> m[2] = 0]

\* partialInsertionSort_func for b - a < 50: true when [a, b) is in order,
\* and otherwise false with nothing moved
partialInsertionSort(s, a, b) == \A x \in (a + 1) .. (b - 1) : ~Less(s, x, x - 1)

RECURSIVE SkipLeft(_, _, _, _)
SkipLeft(s, a, x, y) ==
    IF x <= y /\ Less(s, x, a) THEN SkipLeft(s, a, x + 1, y) ELSE x

RECURSIVE SkipRight(_, _, _, _)
SkipRight(s, a, x, y) ==
    IF x <= y /\ ~Less(s, a, y) THEN SkipRight(s, a, x, y - 1) ELSE y

RECURSIVE PartitionLoop(_, _, _, _)
PartitionLoop(s, a, x, y) ==
    LET x1 == SkipLeft(s, a, x, y)
        y1 == SkipRight(s, a, x1, y)
    IN  IF x1 > y1
        THEN [data |-> Swap(s, y1, a), mid |-> y1]
        ELSE PartitionLoop(Swap(s, x1, y1), a, x1 + 1, y1 - 1)

\* partition_func: the pivot goes to index a, the rest is split about it,
\* and the pivot is swapped to its place mid
partition(s, a, b, pivot) ==
    LET s0 == Swap(s, a, pivot)
        x1 == SkipLeft(s0, a, a + 1, b - 1)
        y1 == SkipRight(s0, a, x1, b - 1)
    IN  IF x1 > y1
        THEN [data |-> Swap(s0, y1, a), mid |-> y1]
        ELSE PartitionLoop(Swap(s0, x1, y1), a, x1 + 1, y1 - 1)

\* pdqsort_func(data, 0, n, limit)
pdqsort(s, a, b) ==
    IF b - a <= maxInsertion
    THEN insertionSort(s, a, b)
    ELSE LET c == choosePivot(s, a, b) IN
         IF c.increasing /\ partialInsertionSort(s, a, b)
         THEN s
         ELSE LET p == partition(s, a, b, c.pivot)
                  leftLen == p.mid - a
                  rightLen == b - p.mid
              IN  IF leftLen < rightLen
                  THEN insertionSort(insertionSort(p.data, a, p.mid), p.mid + 1, b)
                  ELSE insertionSort(insertionSort(p.data, p.mid + 1, b), a, p.mid)

SortSlice(s) == pdqsort(s, 0, Len(s))

(***************************************************************************)
(* deleteSimilarImages (main.go 155-183), on groups[g]: the slice shares   *)
(* its array with main's, so the sort reorders groups[g] itself.           *)
(***************************************************************************)
\* the byte count returned with an error (174, 179)
PartialBytes(total) == total
ErrorBytes(total) == 0

\* the first index the deletion loop removes (171), 1-based
FirstRemoved == 2

DeleteEntry ==
    /\ entryGroup' = groups[g]
    /\ pc' = "del_sort"

\* lines 156-170
DeleteSort ==
    /\ pc = "del_sort"
    /\ groups' = [groups EXCEPT ![g] = SortSlice(groups[g])]
    /\ dTotal' = 0
    /\ k' = FirstRemoved
    /\ pc' = "del_loop"
    /\ UNCHANGED <<deleteFlag, nargs, pctArg, similarityThreshold, nfiles, w,
                   images, loadErr, disk, used, i, j, group, errPairs, calls,
                   firstResult, g, entryGroup, saved, delErr, totalSaved,
                   outcomes, statLog, removeLog>>

\* one pass of the loop of lines 171-181, or the return of line 182; os.Stat
\* and os.Remove fail on a file that is not there, and may fail on one that is
DeleteStep ==
    /\ pc = "del_loop"
    /\ IF k > Len(groups[g])
       THEN /\ saved' = dTotal
            /\ delErr' = FALSE
            /\ pc' = "del_ret"
            /\ UNCHANGED <<k, dTotal, disk, statLog, removeLog>>
       ELSE LET path == groups[g][k].Path IN
            \E statOk \in {path \in disk, FALSE}, removeOk \in {path \in disk, FALSE} :
               /\ statLog' = Append(statLog, path)
               /\ IF ~statOk
                  THEN /\ saved' = ErrorBytes(dTotal)
                       /\ delErr' = TRUE
                       /\ pc' = "del_ret"
                       /\ UNCHANGED <<k, dTotal, disk, removeLog>>
                  ELSE /\ dTotal' = dTotal + SizeOf(path)
                       /\ removeLog' = Append(removeLog, path)
                       /\ IF ~removeOk
                          THEN /\ saved' = ErrorBytes(dTotal')
                               /\ delErr' = TRUE
                               /\ pc' = "del_ret"
                               /\ UNCHANGED <<k, disk>>
                          ELSE /\ disk' = disk \ {path}
                               /\ k' = k + 1
                               /\ UNCHANGED <<pc, saved, delErr>>
    /\ UNCHANGED <<deleteFlag, nargs, pctArg, similarityThreshold, nfiles, w,
                   images, loadErr, used, i, j, group, groups, errPairs, calls,
                   firstResult, g, entryGroup, totalSaved, outcomes>>

(***************************************************************************)
(* deleteSimilarImages called on one group: up to MaxGroup members over a  *)
(* few hashes of both kinds, and groups of maxInsertion + 1 members, the   *)
(* anchor first and every other member at distance 0 or 16 from it.        *)
(***************************************************************************)
SmallGroups ==
    UNION {[1 .. n -> BlockHashes \X Kinds] : n \in 2 .. MaxGroup}
LongGroups ==
    {[x \in 1 .. (maxInsertion + 1) |->
         IF x = 1 THEN <<LowBits(0), "PHash">> ELSE <<f[x], "PHash">>] :
      f \in [2 .. (maxInsertion + 1) -> {LowBits(0), LowBits(16)}]}

InitDelete ==
    /\ deleteFlag = TRUE
    /\ nargs = 2
    /\ pctArg = Number(0)
    /\ similarityThreshold = parsePercentage(pctArg).val
    /\ nfiles = 0
    /\ w = 1
    /\ loadErr = FALSE
    /\ used = {}
    /\ i = 1
    /\ j = 1
    /\ group = <<>>
    /\ errPairs = {}
    /\ calls = 0
    /\ firstResult = <<>>
    /\ g = 1
    /\ k = FirstRemoved
    /\ dTotal = 0
    /\ saved = 0
    /\ delErr = FALSE
    /\ totalSaved = 0
    /\ outcomes = <<>>
    /\ statLog = <<>>
    /\ removeLog = <<>>
    /\ images \in {MkImages(f) : f \in SmallGroups \cup LongGroups}
    /\ groups = <<images>>
    /\ entryGroup = images
    /\ disk = Paths(images)
    /\ pc = "del_sort"

NextDelete == DeleteSort \/ DeleteStep

SpecDelete == InitDelete /\ [][NextDelete]_vars

(***************************************************************************)
(* Properties of deleteSimilarImages, under SpecDelete.                    *)
(***************************************************************************)
Sorted == pc \in {"del_loop", "del_ret"}
Succeeded == pc = "del_ret" /\ ~delErr
Failed == pc = "del_ret" /\ delErr
OthersOf(grp) == Paths(grp) \ {grp[1].Path}

\* C3: for every group of 2 or more members with distinct paths, after the
\* sort the anchor (group[0] on entry) is at index 0, and when every stat and
\* remove succeeds the anchor's file is kept, every other member's file is
\* removed and the sum of the removed files' sizes is returned.
C3_AnchorKept ==
    /\ Sorted => groups[g][1].Path = entryGroup[1].Path
    /\ Succeeded =>
          /\ entryGroup[1].Path \in disk
          /\ OthersOf(entryGroup) \cap disk = {}
          /\ saved = SumSizes(Tail(entryGroup))

PathSeq(s, a, b) == [x \in 1 .. (b - a + 1) |-> s[a + x - 1].Path]

\* C4: when stat or remove fails for the member at sorted index k >= 1, the
\* function returns an error with a byte count of 0; the members before k
\* stay removed, and the members after k are neither stat-ed nor removed.
C4_StopAtFailure ==
    Failed =>
       /\ saved = 0
       /\ k \in FirstRemoved .. Len(groups[g])
       /\ statLog = PathSeq(groups[g], FirstRemoved, k)
       /\ removeLog \in {PathSeq(groups[g], FirstRemoved, k - 1),
                         PathSeq(groups[g], FirstRemoved, k)}
       /\ disk = Paths(entryGroup) \ Range(PathSeq(groups[g], FirstRemoved, k - 1))

C4_FailedAfterRemoving ==
    /\ Failed
    /\ k > FirstRemoved
    /\ k < Len(groups[g])
    /\ Len(removeLog) = Len(statLog)

(***************************************************************************)
(* main (main.go 22-72) and loadImages (86-106).                           *)
(***************************************************************************)
\* the percentage arguments drawn: not a number, out of range, in range
PctArgs == {NotANumber, Number(-1), Number(75), Number(100), Number(101)}

\* what the walk finds at an entry: an error of the walk, something that is
\* no image file, an image that fails to decode or to hash, or an image
WalkEvents ==
    {[kind |-> x, hash |-> {}] : x \in {"walkerr", "other", "loaderr"}}
        \cup {[kind |-> "image", hash |-> h] : h \in BlockHashes}

\* if *deleteFlag (58)
Always(flag) == TRUE
DeleteRequested(flag) == flag

\* continue (65): on to the next group
StopAtError(x, n) == n + 1
AfterError(x, n) == x + 1

\* lines 24-38
ParseArgs ==
    /\ pc = "start"
    /\ IF nargs < 2
       THEN /\ pc' = "exit"
            /\ UNCHANGED similarityThreshold
       ELSE LET r == parsePercentage(pctArg) IN
            IF r.err
            THEN /\ pc' = "exit"
                 /\ UNCHANGED similarityThreshold
            ELSE /\ similarityThreshold' = r.val
                 /\ pc' = "load"
    /\ UNCHANGED <<deleteFlag, nargs, pctArg, nfiles, w, images, loadErr, disk,
                   used, i, j, group, groups, errPairs, calls, firstResult, g,
                   entryGroup, k, dTotal, saved, delErr, totalSaved, outcomes,
                   statLog, removeLog>>

\* one call of the walk's function (88-104), or the end of the walk and
\* lines 40-46 of main: the call of findSimilarImages
Walk ==
    /\ pc = "load"
    /\ IF w > nfiles
       THEN /\ FindEntry
            /\ UNCHANGED <<w, images, loadErr>>
       ELSE \E ev \in WalkEvents :
               /\ IF ev.kind \in {"walkerr", "loaderr"}
                  THEN /\ loadErr' = TRUE
                       /\ pc' = "exit"
                       /\ UNCHANGED <<w, images>>
                  ELSE /\ images' = IF ev.kind = "image"
                                    THEN Append(images, ImageInfo(w, ev.hash, "PHash"))
                                    ELSE images
                       /\ w' = w + 1
                       /\ UNCHANGED <<pc, loadErr>>
               /\ UNCHANGED <<used, groups, group, i, j, calls>>
    /\ UNCHANGED <<deleteFlag, nargs, pctArg, similarityThreshold, nfiles, disk,
                   errPairs, firstResult, g, entryGroup, k, dTotal, saved,
                   delErr, totalSaved, outcomes, statLog, removeLog>>

\* lines 49-59: the groups are printed
Report ==
    /\ pc = "found"
    /\ IF DeleteRequested(deleteFlag)
       THEN /\ totalSaved' = 0
            /\ g' = 1
            /\ pc' = "main_del"
       ELSE /\ pc' = "exit"
            /\ UNCHANGED <<totalSaved, g>>
    /\ UNCHANGED <<deleteFlag, nargs, pctArg, similarityThreshold, nfiles, w,
                   images, loadErr, disk, used, i, j, group, groups, errPairs,
                   calls, firstResult, entryGroup, k, dTotal, saved, delErr,
                   outcomes, statLog, removeLog>>

\* the head of the loop of line 60, lines 61-62, and line 70
DeleteLoop ==
    /\ pc = "main_del"
    /\ IF g > Len(groups)
       THEN /\ pc' = "exit"
            /\ UNCHANGED <<g, entryGroup>>
       ELSE IF Len(groups[g]) > 1
       THEN /\ DeleteEntry
            /\ UNCHANGED g
       ELSE /\ g' = g + 1
            /\ UNCHANGED <<pc, entryGroup>>
    /\ UNCHANGED <<deleteFlag, nargs, pctArg, similarityThreshold, nfiles, w,
                   images, loadErr, disk, used, i, j, group, groups, errPairs,
                   calls, firstResult, k, dTotal, saved, delErr, totalSaved,
                   outcomes, statLog, removeLog>>

\* lines 63-67
DeleteReturn ==
    /\ pc = "del_ret"
    /\ outcomes' = Append(outcomes, [err |-> delErr, saved |-> saved, group |-> g])
    /\ IF delErr
       THEN /\ g' = AfterError(g, Len(groups))
            /\ UNCHANGED totalSaved
       ELSE /\ totalSaved' = totalSaved + saved
            /\ g' = g + 1
    /\ pc' = "main_del"
    /\ UNCHANGED <<deleteFlag, nargs, pctArg, similarityThreshold, nfiles, w,
                   images, loadErr, disk, used, i, j, group, groups, errPairs,
                   calls, firstResult, entryGroup, k, dTotal, saved, delErr,
                   statLog, removeLog>>

Init ==
    /\ pc = "start"
    /\ deleteFlag \in BOOLEAN
    /\ nargs \in 0 .. 2
    /\ pctArg \in PctArgs
    /\ similarityThreshold = Ratio(0, 1)
    /\ nfiles \in 0 .. MaxFiles
    /\ w = 1
    /\ images = <<>>
    /\ loadErr = FALSE
    /\ disk = 1 .. nfiles
    /\ used = {}
    /\ i = 1
    /\ j = 1
    /\ group = <<>>
    /\ groups = <<>>
    /\ errPairs = {}
    /\ calls = 0
    /\ firstResult = <<>>
    /\ g = 1
    /\ entryGroup = <<>>
    /\ k = FirstRemoved
    /\ dTotal = 0
    /\ saved = 0
    /\ delErr = FALSE
    /\ totalSaved = 0
    /\ outcomes = <<>>
    /\ statLog = <<>>
    /\ removeLog = <<>>

Next ==
    \/ ParseArgs
    \/ Walk
    \/ FindOuter
    \/ FindInner
    \/ Report
    \/ DeleteLoop
    \/ DeleteSort
    \/ DeleteStep
    \/ DeleteReturn

Spec == Init /\ [][Next]_vars

(***************************************************************************)
(* Properties of findSimilarImages, under SpecFind.  The threshold is      *)
(* pctArg.val / 100 there, and an image's path is its input index.         *)
(***************************************************************************)
Found == pc = "found"
GroupPaths == UNION {Paths(groups[x]) : x \in DOMAIN groups}
NonAnchors(grp) == {grp[y].Path : y \in 2 .. Len(grp)}

\* 1 - d/64 >= p/100, in whole numbers; a pair whose distance is an error
\* does not pass
Passes(a, b) ==
    /\ a.Kind = b.Kind
    /\ PctMax * (HashBits - Distance(a, b).distance) >= pctArg.val * HashBits

Isolated(x) == \A y \in DOMAIN images \ {x} : ~Passes(images[x], images[y])

Chain ==
    /\ Len(images) = 3
    /\ Passes(images[1], images[2])
    /\ Passes(images[2], images[3])
    /\ ~Passes(images[1], images[3])

\* C2: in every group returned the first member is the anchor (an image no
\* group claimed), it precedes every other member in input order and every
\* other member passes the threshold against it;
\* with A~B, B~C and not A~C, C is not in the group anchored at A.
C2_AnchorSimilarity ==
    Found =>
       /\ \A x \in DOMAIN groups : \A y \in 2 .. Len(groups[x]) :
             /\ groups[x][1].Path \notin used
             /\ groups[x][1].Path < groups[x][y].Path
             /\ Passes(groups[x][1], groups[x][y])
       /\ Chain =>
             \A x \in DOMAIN groups :
                groups[x][1] = images[1] => images[3] \notin Range(groups[x])

C2_ChainSplit ==
    /\ Found
    /\ Chain
    /\ groups = <<(<<images[1], images[2]>>)>>

\* C6: two images at distance d and a threshold of p/100 are put in one
\* group exactly when 1 - d/64 >= p/100, equality included.
C6_ThresholdBoundary ==
    (Found /\ Len(images) = 2 /\ images[1].Kind = images[2].Kind) =>
       LET d == Distance(images[1], images[2]).distance IN
       (groups = <<images>>) <=> (PctMax * (HashBits - d) >= pctArg.val * HashBits)

C6_AtEquality ==
    /\ Found
    /\ Len(images) = 2
    /\ Distance(images[1], images[2]) = [err |-> FALSE, distance |-> 16]
    /\ pctArg = Number(75)
    /\ groups = <<images>>

\* C8: a second call on the same input and threshold returns what the first
\* returned, a call starts with nothing claimed, and the input is not changed.
C8_SecondCallAgrees ==
    /\ [][images' = images]_vars
    /\ [](pc = "returned" => groups = firstResult)
    /\ []((pc = "find_outer" /\ i = 1) => used = {})

C8_TwoCallsWithGroups ==
    /\ pc = "returned"
    /\ calls = MaxCalls
    /\ Len(groups) >= 1
    /\ Len(images) = MaxImages

\* C9: a pair whose distance is an error is not put in one group by that
\* comparison and claims nothing; the pass goes on, so that every candidate
\* that passes against an unclaimed anchor is claimed when the call returns.
C9_DistanceErrorSkipped ==
    /\ \A grp \in Range(groups) \cup {group} : \A y \in 2 .. Len(grp) :
          ~Distance(grp[1], grp[y]).err
    /\ \A e \in errPairs :
          /\ Distance(images[e[1]], images[e[2]]).err
          /\ \A grp \in Range(groups) \cup {group} :
                (grp # <<>> /\ grp[1] = images[e[1]]) => images[e[2]] \notin Range(grp)
    /\ used = UNION {NonAnchors(groups[x]) : x \in DOMAIN groups}
                 \cup (IF pc = "find_inner" THEN NonAnchors(group) ELSE {})
    /\ Found =>
          \A x, y \in DOMAIN images :
             (x < y /\ x \notin used /\ Passes(images[x], images[y])) => y \in used

C9_ClaimedAfterError ==
    /\ Found
    /\ \E e \in errPairs : e[2] \in used

(***************************************************************************)
(* Properties of a whole run, under Spec.                                  *)
(***************************************************************************)
Exited == pc = "exit"
OnDiskAtStart == 1 .. nfiles

RECURSIVE SumSucceeded(_)
SumSucceeded(outs) ==
    IF outs = <<>> THEN 0
    ELSE (IF Head(outs).err THEN 0 ELSE SumSizes(Tail(groups[Head(outs).group])))
         + SumSucceeded(Tail(outs))

\* C5: with -d, an error in one group does not stop the run: every group is
\* passed to deleteSimilarImages, in order, and the total reported is the sum
\* of the sizes of the removed files of the groups that succeeded completely.
C5_TotalOfSucceededGroups ==
    (Exited /\ deleteFlag) =>
       /\ Len(outcomes) = Len(groups)
       /\ \A x \in DOMAIN outcomes : outcomes[x].group = x
       /\ totalSaved = SumSucceeded(outcomes)

C5_FailedThenSucceeded ==
    /\ Exited
    /\ deleteFlag
    /\ Len(outcomes) = 2
    /\ outcomes[1].err
    /\ Paths(groups[1]) \ disk # {}
    /\ ~outcomes[2].err
    /\ totalSaved = SumSizes(Tail(groups[2]))

\* C7: a file is removed only in a run with -d, both arguments, a percentage
\* in [0, 100] and a scan that ended without an error; in every other run the
\* files on disk stay as they were.
C7_RemovalOnlyWhenRequested ==
    (disk # OnDiskAtStart \/ removeLog # <<>>) =>
       /\ deleteFlag
       /\ nargs >= 2
       /\ pctArg.ok /\ pctArg.val >= 0 /\ pctArg.val <= PctMax
       /\ ~loadErr

C7_FileRemoved ==
    /\ Exited
    /\ disk # OnDiskAtStart

\* C10: every path removal is attempted on is that of a member of a group of
\* 2 or more that was returned, an image in no group is never removed, and
\* removal is attempted on a path at most once in the run.
C10_RemovalWithinGroups ==
    /\ \A x \in DOMAIN removeLog :
          \E y \in DOMAIN groups : Len(groups[y]) >= 2 /\ removeLog[x] \in Paths(groups[y])
    /\ \A x \in OnDiskAtStart : x \notin GroupPaths => x \in disk
    /\ \A x, y \in DOMAIN removeLog : x # y => removeLog[x] # removeLog[y]

C10_TwoGroupsAttempted ==
    /\ Exited
    /\ Len(groups) = 2
    /\ Len(removeLog) >= 2
    /\ \E x \in DOMAIN images : images[x].Path \notin GroupPaths
    /\ \E x \in DOMAIN removeLog : removeLog[x] \in disk
====
